---- MODULE Spec2Model ----
(***************************************************************************)
(* Device-interaction core of the Scrutiny server: DeviceHandler (the      *)
(* connection FSM), InfoPoller (the interrogation sequence) and their      *)
(* collaborators.  Every Python method is an operator from a state record  *)
(* to a state record; a raised exception is the field exc of the record,   *)
(* and the statements after the raise are not executed.                    *)
(***************************************************************************)
EXTENDS Integers, Sequences, FiniteSets, TLC

VARIABLES
    device_handler,       \* DeviceHandler's own attributes
    info_poller,          \* DeviceHandler.info_poller (InfoPoller)
    device_searcher,      \* DeviceHandler.device_searcher
    session_initializer,  \* DeviceHandler.session_initializer
    heartbeat_generator,  \* DeviceHandler.heartbeat_generator
    dispatcher,           \* DeviceHandler.dispatcher: the queued request records
    comm_handler,         \* DeviceHandler.comm_handler
    protocol,             \* DeviceHandler.protocol
    cb_calls,             \* history: arguments the user's disconnect callback got
    last,                 \* history: the last operation and what happened in it
    sfd_handler,          \* ActiveSFDHandler's own attributes
    datastore,            \* ActiveSFDHandler.datastore: the display paths it holds
    sfd_last,             \* history: the last ActiveSFDHandler operation
    sfd_notified,         \* history: the last notification the callbacks got
    happy_ticks           \* history: ticks since the device id was discovered

vars == << device_handler, info_poller, device_searcher, session_initializer,
           heartbeat_generator, dispatcher, comm_handler, protocol, cb_calls, last,
           sfd_handler, datastore, sfd_last, sfd_notified, happy_ticks >>

-----------------------------------------------------------------------------
(* Bounds of the model *)

\* largest number of forbidden regions a device reports
MaxRegions == 1
\* most records the dispatcher queue holds between two operations
MaxQueue == 1
\* most callbacks registered in each callback list of the ActiveSFDHandler
MaxCallbacks == 2
\* most ticks counted after the discovery of the device
MaxHappyTicks == 30

-----------------------------------------------------------------------------
(* Python's None and optional values: None is <<>>, a value x is <<x>> *)

None == <<>>
Some(x) == <<x>>
Get(o) == o[1]
IsInt(o) == o # None

-----------------------------------------------------------------------------
(* Values the device can answer with *)

FirmwareIds == {"ABCD1234"}
SessionIds == {305419896}
\* (major, minor) pairs; Protocol.set_version accepts the supported ones
ProtocolVersions == {<<1, 0>>, <<9, 9>>}
SupportedVersions == {<<1, 0>>}
AddressSizeBytes == {2, 3}
\* nbr_forbidden and nbr_readonly of the device; both region states run the
\* same code, so batches of more than one request go through the forbidden one
ForbiddenCounts == 0..MaxRegions
ReadonlyCounts == {0, 1}
ResponseCodes == {"OK", "FailureToProceed"}

\* DeviceHandler.DEFAULT_PARAMS
default_address_size == 32
default_protocol_version == <<1, 0>>

\* DeviceHandler.RequestPriority
Priority ==
    [disconnect |-> 0, heartbeat |-> 1, connect |-> 2, pollinfo |-> 5, discover |-> 10]

\* InfoPoller.FsmState members that send requests, in order
RequestingStates ==
    {"GetProtocolVersion", "GetCommParams", "GetSupportedFeatures",
     "GetSpecialMemoryRegionCount", "GetForbiddenMemoryRegions",
     "GetReadOnlyMemoryRegions"}
SingleRequestStates ==
    {"GetProtocolVersion", "GetCommParams", "GetSupportedFeatures",
     "GetSpecialMemoryRegionCount"}

\* the request each InfoPoller state builds
RequestKindOf(state) ==
    CASE state = "GetProtocolVersion" -> "get_protocol_version"
      [] state = "GetCommParams" -> "comm_get_params"
      [] state = "GetSupportedFeatures" -> "get_supported_features"
      [] state = "GetSpecialMemoryRegionCount" -> "get_special_memory_region_count"
      [] state = "GetForbiddenMemoryRegions" -> "get_special_memory_region_location"
      [] state = "GetReadOnlyMemoryRegions" -> "get_special_memory_region_location"
      [] OTHER -> "none"

PollerKinds ==
    {"get_protocol_version", "comm_get_params", "get_supported_features",
     "get_special_memory_region_count", "get_special_memory_region_location"}

-----------------------------------------------------------------------------
(* DeviceInfo *)

DeviceInfo_clear ==
    [protocol_major |-> None, protocol_minor |-> None,
     max_tx_data_size |-> None, max_rx_data_size |-> None,
     max_bitrate_bps |-> None, rx_timeout_us |-> None,
     heartbeat_timeout_us |-> None, address_size_bits |-> None,
     supported_feature_map |-> None,
     forbidden_memory_regions |-> None, readonly_memory_regions |-> None]

all_ready(info) ==
    \A f \in DOMAIN info : info[f] # None

-----------------------------------------------------------------------------
(* The state the operators work on: the variables, plus                    *)
(*   exc: the exception the running operation has raised ("none" if none), *)
(*   ev:  what has happened so far in the running operation.               *)

NoEvents ==
    [comm |-> "none",            \* the transport error handle_comm met: "timeout",
                                 \* "parse_error", "callback_error", "idle"
     completed |-> "none",       \* whose record handle_comm completed:
                                 \* "disconnect", "poller", "other"
     success |-> FALSE,          \* ... and whether it was completed with success
     failure_state |-> "",       \* InfoPoller.fsm_state when one of its callbacks
                                 \* recorded a failure (set request_failed)
     info_before |-> DeviceInfo_clear, \* InfoPoller.info when that callback began
     callback_raised |-> FALSE,  \* a capability callback raised in InfoPoller.process
     heartbeat_expired |-> FALSE]\* line 218's comparison was evaluated and was true

State ==
    [device_handler |-> device_handler, info_poller |-> info_poller,
     device_searcher |-> device_searcher,
     session_initializer |-> session_initializer,
     heartbeat_generator |-> heartbeat_generator,
     dispatcher |-> dispatcher, comm_handler |-> comm_handler,
     protocol |-> protocol, cb_calls |-> cb_calls,
     stage_entry_info |-> last.stage_entry_info,
     exc |-> "none", ev |-> NoEvents]

Raise(s, exception) == [s EXCEPT !.exc = exception]

-----------------------------------------------------------------------------
(* RequestDispatcher: a priority queue of records, kept in the order they   *)
(* are served (lower priority value first, first-registered first among    *)
(* equals)                                                                 *)

\* the position of a new record: behind every record that is at least as urgent
insert_index(q, priority) ==
    1 + Cardinality({j \in 1..Len(q) : q[j].priority <= priority})

register_request(s, kind, priority) ==
    LET q == s.dispatcher
        i == insert_index(q, priority)
    IN  [s EXCEPT !.dispatcher =
            SubSeq(q, 1, i - 1) \o <<[kind |-> kind, priority |-> priority]>>
                \o SubSeq(q, i, Len(q))]

\* next(): the most urgent record, the first registered among equals
next_index(q) == 1

remove_at(q, i) == SubSeq(q, 1, i - 1) \o SubSeq(q, i + 1, Len(q))

-----------------------------------------------------------------------------
(* CommHandler: idle, waiting for a response, response available, timed out *)

CommHandler_closed ==
    [open |-> FALSE, state |-> "idle", request |-> "none", response |-> None]

comm_open(s) == [s EXCEPT !.comm_handler = [CommHandler_closed EXCEPT !.open = TRUE]]
comm_close(s) == [s EXCEPT !.comm_handler = CommHandler_closed]
is_open(s) == s.comm_handler.open
has_timed_out(s) == s.comm_handler.state = "timed_out"
waiting_response(s) == s.comm_handler.state \in {"waiting", "response_available"}
response_available(s) == s.comm_handler.state = "response_available"
comm_idle(s) ==
    [s EXCEPT !.comm_handler.state = "idle", !.comm_handler.request = "none",
              !.comm_handler.response = None]
send_request(s, kind) ==
    [s EXCEPT !.comm_handler.state = "waiting", !.comm_handler.request = kind,
              !.comm_handler.response = None]

\* comm_handler.process(): reception.  e is what the link delivers in this tick.
comm_process(s, e) ==
    IF ~is_open(s) \/ s.comm_handler.state # "waiting" \/ e.type = "none" THEN s
    ELSE IF e.type = "timeout" THEN [s EXCEPT !.comm_handler.state = "timed_out"]
    ELSE IF e.type = "idle" THEN comm_idle(s)
    ELSE [s EXCEPT !.comm_handler.state = "response_available",
                   !.comm_handler.response = Some(e.response)]

\* what the device can answer to a request of this kind
DataOf(kind) ==
    CASE kind = "discover" -> {[firmware_id |-> f] : f \in FirmwareIds}
      [] kind = "connect" -> {[session_id |-> i] : i \in SessionIds}
      [] kind = "get_protocol_version" ->
            {[major |-> v[1], minor |-> v[2]] : v \in ProtocolVersions}
      [] kind = "comm_get_params" ->
            {[max_tx_data_size |-> 256, max_rx_data_size |-> 128,
              max_bitrate_bps |-> 100000, rx_timeout_us |-> 50000,
              heartbeat_timeout_us |-> 5000000, address_size_byte |-> b] :
                b \in AddressSizeBytes}
      [] kind = "get_supported_features" ->
            {[memory_read |-> TRUE, memory_write |-> TRUE,
              datalog_acquire |-> TRUE, user_command |-> TRUE]}
      [] kind = "get_special_memory_region_count" ->
            {[nbr_forbidden |-> f, nbr_readonly |-> r] :
                f \in ForbiddenCounts, r \in ReadonlyCounts}
      [] kind = "get_special_memory_region_location" ->
            {[start |-> 4096, end |-> 8191]}
      [] OTHER -> {[nothing |-> TRUE]}

\* A refused, invalid or unparsable answer carries no data the core reads.
NoData == [nothing |-> TRUE]

Responses(kind) ==
    {[kind |-> kind, parse_ok |-> TRUE, code |-> "OK", valid |-> TRUE, data |-> d] :
        d \in DataOf(kind)}
    \cup {[kind |-> kind, parse_ok |-> TRUE, code |-> "FailureToProceed",
           valid |-> v, data |-> NoData] : v \in BOOLEAN}
    \cup {[kind |-> kind, parse_ok |-> TRUE, code |-> "OK", valid |-> FALSE,
           data |-> NoData]}
    \cup {[kind |-> kind, parse_ok |-> FALSE, code |-> "OK", valid |-> TRUE,
           data |-> NoData]}

LinkEvents(kind) ==
    {[type |-> "none"], [type |-> "timeout"], [type |-> "idle"]}
    \cup {[type |-> "response", response |-> r] : r \in Responses(kind)}

-----------------------------------------------------------------------------
(* DeviceSearcher, SessionInitializer, HeartbeatGenerator: start() arms,    *)
(* stop() disarms, process() resets a disarmed generator and otherwise      *)
(* registers its request when none is pending; timer says whether the       *)
(* generator's interval has elapsed.                                        *)

DeviceSearcher_reset == [started |-> FALSE, pending |-> FALSE, found_device |-> None]

device_searcher_process(s, timer) ==
    LET g == s.device_searcher IN
    IF ~g.started THEN [s EXCEPT !.device_searcher = DeviceSearcher_reset]
    ELSE IF ~g.pending /\ timer
         THEN [register_request(s, "discover", Priority.discover)
                  EXCEPT !.device_searcher.pending = TRUE]
         ELSE s

device_searcher_callback(s, success, response) ==
    [s EXCEPT !.device_searcher.pending = FALSE,
              !.device_searcher.found_device =
                  IF ~s.device_searcher.started THEN @
                  ELSE IF success /\ response.code = "OK" /\ response.valid
                            /\ response.kind = "discover"
                       THEN Some(response.data.firmware_id)
                       ELSE None]

SessionInitializer_reset ==
    [started |-> FALSE, pending |-> FALSE, success |-> FALSE, error |-> FALSE,
     session_id |-> None]

session_initializer_process(s) ==
    LET g == s.session_initializer IN
    IF ~g.started THEN [s EXCEPT !.session_initializer = SessionInitializer_reset]
    ELSE IF ~g.pending /\ ~g.success /\ ~g.error
         THEN [register_request(s, "connect", Priority.connect)
                  EXCEPT !.session_initializer.pending = TRUE]
         ELSE s

session_initializer_callback(s, success, response) ==
    LET ok == success /\ response.code = "OK" /\ response.valid
                  /\ response.kind = "connect" IN
    IF ~s.session_initializer.started
    THEN [s EXCEPT !.session_initializer.pending = FALSE]
    ELSE [s EXCEPT !.session_initializer.pending = FALSE,
                   !.session_initializer.success = ok,
                   !.session_initializer.error = ~ok,
                   !.session_initializer.session_id =
                       IF ok THEN Some(response.data.session_id) ELSE @]

connection_successful(s) == s.session_initializer.success
session_initializer_is_in_error(s) == s.session_initializer.error

HeartbeatGenerator_reset == [started |-> FALSE, pending |-> FALSE, session_id |-> None]

heartbeat_generator_process(s, timer) ==
    LET g == s.heartbeat_generator IN
    IF ~g.started
    THEN [s EXCEPT !.heartbeat_generator.started = FALSE,
                   !.heartbeat_generator.pending = FALSE]
    ELSE IF ~g.pending /\ timer
         THEN [register_request(s, "heartbeat", Priority.heartbeat)
                  EXCEPT !.heartbeat_generator.pending = TRUE]
         ELSE s

heartbeat_generator_callback(s, success, response) ==
    [s EXCEPT !.heartbeat_generator.pending = FALSE]

-----------------------------------------------------------------------------
(* DeviceHandler's capability callbacks, handed to the InfoPoller *)

\* Protocol.set_version: rejects a version it does not support
set_version(s, major, minor) ==
    IF <<major, minor>> \notin SupportedVersions THEN Raise(s, "Exception")
    ELSE [s EXCEPT !.protocol.version = <<major, minor>>]

set_address_size(s, bits) == [s EXCEPT !.protocol.address_size = bits]

\* get_comm_params_callback without the check of line 95
get_comm_params_callback_any_size(s, partial_device_info) ==
    IF ~IsInt(partial_device_info.address_size_bits) THEN Raise(s, "Exception")
    ELSE IF ~IsInt(partial_device_info.heartbeat_timeout_us)
         THEN Raise(s, "Exception")
    ELSE set_address_size(s, Get(partial_device_info.address_size_bits))

get_comm_params_callback(s, partial_device_info) ==
    IF ~IsInt(partial_device_info.address_size_bits) THEN Raise(s, "Exception")
    ELSE IF Get(partial_device_info.address_size_bits) \notin {8, 16, 32, 64}
         THEN Raise(s, "Exception")
    ELSE IF ~IsInt(partial_device_info.heartbeat_timeout_us)
         THEN Raise(s, "Exception")
    ELSE set_address_size(s, Get(partial_device_info.address_size_bits))

get_protocol_version_callback(s, major, minor) ==
    IF ~IsInt(major) \/ ~IsInt(minor) THEN Raise(s, "Exception")
    ELSE set_version(s, Get(major), Get(minor))

-----------------------------------------------------------------------------
(* InfoPoller *)

NoMessage == [what |-> "", state |-> ""]

InfoPoller_reset(p) ==
    [p EXCEPT !.fsm_state = "Init", !.last_fsm_state = "Init",
              !.stop_requested = FALSE, !.request_pending = FALSE,
              !.request_failed = FALSE,
              !.forbidden_memory_region_count = None,
              !.readonly_memory_region_count = None,
              !.error_message = NoMessage,
              !.info = DeviceInfo_clear]

InfoPoller_init ==
    InfoPoller_reset(
        [fsm_state |-> "Init", last_fsm_state |-> "Init", started |-> FALSE,
         stop_requested |-> FALSE, request_pending |-> FALSE,
         request_failed |-> FALSE, forbidden_memory_region_count |-> None,
         readonly_memory_region_count |-> None, error_message |-> NoMessage,
         info |-> DeviceInfo_clear])

\* reset() on the poller of s; the state Init is entered with info cleared
ip_reset(s) ==
    [s EXCEPT !.info_poller = InfoPoller_reset(@),
              !.stage_entry_info = DeviceInfo_clear]

info_poller_start(s) == [s EXCEPT !.info_poller.started = TRUE]
info_poller_stop(s) == [s EXCEPT !.info_poller.stop_requested = TRUE]
\* done() answering one state early
done_early(s) ==
    s.info_poller.fsm_state \in {"GetReadOnlyMemoryRegions", "Done"}

done(s) == s.info_poller.fsm_state = "Done"
is_in_error(s) == s.info_poller.fsm_state = "Error"

\* the end of process(): last_fsm_state, fsm_state := fsm_state, next_state
\* (stage_entry_info remembers info as it was when the new state was entered)
ip_move(s, next_state) ==
    [s EXCEPT !.info_poller.last_fsm_state = s.info_poller.fsm_state,
              !.info_poller.fsm_state = next_state,
              !.stage_entry_info =
                  IF next_state # s.info_poller.fsm_state
                  THEN s.info_poller.info ELSE @]

\* state entry of a state that sends one request
ip_enter(s, state_entry) ==
    IF state_entry
    THEN [register_request(s, RequestKindOf(s.info_poller.fsm_state), Priority.pollinfo)
              EXCEPT !.info_poller.request_pending = TRUE]
    ELSE s

ip_GetProtocolVersion(s, state_entry) ==
    LET s1 == ip_enter(s, state_entry)
        p == s1.info_poller
        r == get_protocol_version_callback(s1, p.info.protocol_major,
                                           p.info.protocol_minor)
    IN  IF ~p.request_pending
        THEN IF r.exc # "none"
             THEN ip_move([s1 EXCEPT !.ev.callback_raised = TRUE], "Error")
             ELSE ip_move(r, "GetCommParams")
        ELSE ip_move(s1, IF p.request_failed THEN "Error" ELSE p.fsm_state)

ip_GetCommParams(s, state_entry) ==
    LET s1 == ip_enter(s, state_entry)
        p == s1.info_poller
        r == get_comm_params_callback(s1, p.info)
    IN  IF ~p.request_pending
        THEN IF r.exc # "none"
             THEN ip_move([s1 EXCEPT !.ev.callback_raised = TRUE], "Error")
             ELSE ip_move(r, "GetSupportedFeatures")
        ELSE ip_move(s1, IF p.request_failed THEN "Error" ELSE p.fsm_state)

ip_GetSupportedFeatures(s, state_entry) ==
    LET s1 == ip_enter(s, state_entry)
        p == s1.info_poller
    IN  IF ~p.request_pending
        THEN ip_move(s1, "GetSpecialMemoryRegionCount")
        ELSE ip_move(s1, IF p.request_failed THEN "Error" ELSE p.fsm_state)

ip_GetSpecialMemoryRegionCount(s, state_entry) ==
    LET s0 == IF state_entry
              THEN [s EXCEPT !.info_poller.forbidden_memory_region_count = None,
                             !.info_poller.readonly_memory_region_count = None]
              ELSE s
        s1 == ip_enter(s0, state_entry)
        p == s1.info_poller
    IN  IF ~p.request_pending
        THEN ip_move(s1, "GetForbiddenMemoryRegions")
        ELSE ip_move(s1, IF p.request_failed THEN "Error" ELSE p.fsm_state)

RECURSIVE register_regions(_, _)
register_regions(s, n) ==
    IF n = 0 THEN s
    ELSE register_regions(
             register_request(s, "get_special_memory_region_location",
                              Priority.pollinfo), n - 1)

\* The two region states: on entry the list is emptied and `count` requests are
\* registered (range(None) raises TypeError); the state is left when the list
\* holds `count` entries (len(None), or a comparison with None, raises TypeError).
ip_regions(s, state_entry, field, count, following) ==
    LET s0 == IF state_entry
              THEN [s EXCEPT !.info_poller.info[field] = Some(<<>>)]
              ELSE s
        p == s0.info_poller
    IN  IF state_entry /\ count = None THEN Raise(s0, "TypeError")
        ELSE LET s1 == IF state_entry THEN register_regions(s0, Get(count)) ELSE s0
             IN  IF p.info[field] = None \/ count = None THEN Raise(s1, "TypeError")
                 ELSE IF Len(Get(p.info[field])) >= Get(count)
                      THEN ip_move(s1, following)
                      ELSE ip_move(s1, IF p.request_failed THEN "Error"
                                       ELSE p.fsm_state)

ip_GetForbiddenMemoryRegions(s, state_entry) ==
    ip_regions(s, state_entry, "forbidden_memory_regions",
               s.info_poller.forbidden_memory_region_count,
               "GetReadOnlyMemoryRegions")

\* the read-only state waiting for the forbidden count
ip_GetReadOnlyMemoryRegions_forbidden_count(s, state_entry) ==
    ip_regions(s, state_entry, "readonly_memory_regions",
               s.info_poller.forbidden_memory_region_count, "Done")

ip_GetReadOnlyMemoryRegions(s, state_entry) ==
    ip_regions(s, state_entry, "readonly_memory_regions",
               s.info_poller.readonly_memory_region_count, "Done")

info_poller_process(s) ==
    LET p == s.info_poller
        state_entry == p.fsm_state # p.last_fsm_state
    IN  IF ~p.started THEN ip_reset(s)
        ELSE IF p.stop_requested /\ ~p.request_pending
             THEN ip_reset([s EXCEPT !.info_poller.started = FALSE])
        ELSE CASE p.fsm_state = "Init" -> ip_move(s, "GetProtocolVersion")
               [] p.fsm_state = "GetProtocolVersion" ->
                      ip_GetProtocolVersion(s, state_entry)
               [] p.fsm_state = "GetCommParams" -> ip_GetCommParams(s, state_entry)
               [] p.fsm_state = "GetSupportedFeatures" ->
                      ip_GetSupportedFeatures(s, state_entry)
               [] p.fsm_state = "GetSpecialMemoryRegionCount" ->
                      ip_GetSpecialMemoryRegionCount(s, state_entry)
               [] p.fsm_state = "GetForbiddenMemoryRegions" ->
                      ip_GetForbiddenMemoryRegions(s, state_entry)
               [] p.fsm_state = "GetReadOnlyMemoryRegions" ->
                      ip_GetReadOnlyMemoryRegions(s, state_entry)
               [] OTHER -> ip_move(s, p.fsm_state)


\* completed() without the reset of a stopped poller
ip_completed_no_reset(s) ==
    [s EXCEPT !.info_poller.request_pending = FALSE]

\* completed()
ip_completed(s) ==
    LET s1 == [s EXCEPT !.info_poller.request_pending = FALSE] IN
    IF s1.info_poller.stop_requested
    THEN ip_reset(s1)
    ELSE s1

\* lines 195-219: a response with response_code != OK or valid == False
ip_response_rejected(s, response) ==
    LET p == s.info_poller
        s1 == [s EXCEPT !.info_poller.request_failed = TRUE,
                        !.ev.failure_state =
                            IF p.stop_requested THEN @ ELSE p.fsm_state,
                        !.ev.info_before = p.info]
    IN  IF p.fsm_state \notin RequestingStates
        THEN Raise(s1, "NameError")      \* str(Request): Request is not defined
        ELSE [s1 EXCEPT !.info_poller.error_message =
                  [what |-> IF ~response.valid THEN "invalid" ELSE "refused",
                   state |-> p.fsm_state]]

\* lines 221-268: the response is stored according to the poller's state;
\* reading a key the response does not have raises KeyError
ip_store_response(s, response) ==
    LET p == s.info_poller
        d == response.data
        matches == response.kind = RequestKindOf(p.fsm_state)
        entry == [start |-> d.start, end |-> d.end]
    IN  CASE p.fsm_state \in SingleRequestStates /\ ~matches -> Raise(s, "KeyError")
          [] p.fsm_state = "GetProtocolVersion" /\ matches ->
                [s EXCEPT !.info_poller.info.protocol_major = Some(d.major),
                          !.info_poller.info.protocol_minor = Some(d.minor)]
          [] p.fsm_state = "GetCommParams" /\ matches ->
                [s EXCEPT
                    !.info_poller.info.max_tx_data_size = Some(d.max_tx_data_size),
                    !.info_poller.info.max_rx_data_size = Some(d.max_rx_data_size),
                    !.info_poller.info.max_bitrate_bps = Some(d.max_bitrate_bps),
                    !.info_poller.info.rx_timeout_us = Some(d.rx_timeout_us),
                    !.info_poller.info.heartbeat_timeout_us =
                        Some(d.heartbeat_timeout_us),
                    !.info_poller.info.address_size_bits =
                        Some(d.address_size_byte * 8)]
          [] p.fsm_state = "GetSupportedFeatures" /\ matches ->
                [s EXCEPT !.info_poller.info.supported_feature_map =
                    Some([memory_read |-> d.memory_read,
                          memory_write |-> d.memory_write,
                          datalog_acquire |-> d.datalog_acquire,
                          user_command |-> d.user_command])]
          [] p.fsm_state = "GetSpecialMemoryRegionCount" /\ matches ->
                [s EXCEPT !.info_poller.readonly_memory_region_count =
                              Some(d.nbr_readonly),
                          !.info_poller.forbidden_memory_region_count =
                              Some(d.nbr_forbidden)]
          [] p.fsm_state = "GetForbiddenMemoryRegions" ->
                LET s1 == IF p.info.forbidden_memory_regions = None
                          THEN [s EXCEPT !.info_poller.info.forbidden_memory_regions
                                             = Some(<<>>)]
                          ELSE s
                IN  IF ~matches THEN Raise(s1, "KeyError")
                    ELSE [s1 EXCEPT !.info_poller.info.forbidden_memory_regions =
                              Some(Append(Get(@), entry))]
          [] p.fsm_state = "GetReadOnlyMemoryRegions" ->
                LET s1 == IF p.info.readonly_memory_regions = None
                          THEN [s EXCEPT !.info_poller.info.readonly_memory_regions
                                             = Some(<<>>)]
                          ELSE s
                IN  IF ~matches THEN Raise(s1, "KeyError")
                    ELSE [s1 EXCEPT !.info_poller.info.readonly_memory_regions =
                              Some(Append(Get(@), entry))]
          [] OTHER ->
                [s EXCEPT !.info_poller.error_message =
                              [what |-> "unhandled", state |-> ""]]

ip_success_callback(s, response) ==
    LET p == s.info_poller
        rejected == response.code # "OK" \/ ~response.valid
        s1 == IF rejected THEN ip_response_rejected(s, response)
              ELSE IF ~p.stop_requested THEN ip_store_response(s, response)
              ELSE s
    IN  IF s1.exc # "none" THEN s1 ELSE ip_completed(s1)

\* failure_callback also clearing what was polled so far
ip_failure_callback_clearing(s) ==
    LET p == s.info_poller
        s1 == IF ~p.stop_requested
              THEN [s EXCEPT !.info_poller.request_failed = TRUE,
                             !.ev.failure_state = p.fsm_state,
                             !.ev.info_before = p.info,
                             !.info_poller.info = DeviceInfo_clear,
                             !.info_poller.error_message =
                                 IF p.fsm_state \in RequestingStates
                                 THEN [what |-> "failed", state |-> p.fsm_state]
                                 ELSE [what |-> "internal", state |-> ""]]
              ELSE s
    IN  ip_completed(s1)

ip_failure_callback(s) ==
    LET p == s.info_poller
        s1 == IF ~p.stop_requested
              THEN [s EXCEPT !.info_poller.request_failed = TRUE,
                             !.ev.failure_state = p.fsm_state,
                             !.ev.info_before = p.info,
                             !.info_poller.error_message =
                                 IF p.fsm_state \in RequestingStates
                                 THEN [what |-> "failed", state |-> p.fsm_state]
                                 ELSE [what |-> "internal", state |-> ""]]
              ELSE s
    IN  ip_completed(s1)

-----------------------------------------------------------------------------
(* DeviceHandler *)

\* reset_comm without line 147
reset_comm_still_connected(s) ==
    [s EXCEPT !.device_handler.fsm_state = "INIT",
              !.device_handler.last_fsm_state = "INIT",
              !.device_handler.active_request_record = None,
              !.device_handler.device_id = None,
              !.device_handler.comm_broken = FALSE,
              !.device_searcher.started = FALSE,
              !.heartbeat_generator.started = FALSE,
              !.info_poller.stop_requested = TRUE,
              !.session_initializer.started = FALSE,
              !.device_handler.session_id = None,
              !.device_handler.disconnection_requested = FALSE,
              !.device_handler.disconnect_callback = None,
              !.device_handler.disconnect_complete = FALSE,
              !.device_handler.comm_broken_count = 0,
              !.protocol.address_size = default_address_size,
              !.protocol.version = default_protocol_version]

\* reset_comm without line 155
reset_comm_poller_running(s) ==
    [s EXCEPT !.device_handler.connected = FALSE,
              !.device_handler.fsm_state = "INIT",
              !.device_handler.last_fsm_state = "INIT",
              !.device_handler.active_request_record = None,
              !.device_handler.device_id = None,
              !.device_handler.comm_broken = FALSE,
              !.device_searcher.started = FALSE,
              !.heartbeat_generator.started = FALSE,
              !.session_initializer.started = FALSE,
              !.device_handler.session_id = None,
              !.device_handler.disconnection_requested = FALSE,
              !.device_handler.disconnect_callback = None,
              !.device_handler.disconnect_complete = FALSE,
              !.device_handler.comm_broken_count = 0,
              !.protocol.address_size = default_address_size,
              !.protocol.version = default_protocol_version]

reset_comm(s) ==
    [s EXCEPT !.device_handler.connected = FALSE,
              !.device_handler.fsm_state = "INIT",
              !.device_handler.last_fsm_state = "INIT",
              !.device_handler.active_request_record = None,
              !.device_handler.device_id = None,
              !.device_handler.comm_broken = FALSE,
              !.device_searcher.started = FALSE,
              !.heartbeat_generator.started = FALSE,
              !.info_poller.stop_requested = TRUE,
              !.session_initializer.started = FALSE,
              !.device_handler.session_id = None,
              !.device_handler.disconnection_requested = FALSE,
              !.device_handler.disconnect_callback = None,
              !.device_handler.disconnect_complete = FALSE,
              !.device_handler.comm_broken_count = 0,
              !.protocol.address_size = default_address_size,
              !.protocol.version = default_protocol_version]

DeviceHandler_init ==
    [connected |-> FALSE, fsm_state |-> "INIT", last_fsm_state |-> "INIT",
     active_request_record |-> None, device_id |-> None, comm_broken |-> FALSE,
     session_id |-> None, disconnection_requested |-> FALSE,
     disconnect_callback |-> None, disconnect_complete |-> FALSE,
     comm_broken_count |-> 0, device_info |-> None]

get_connection_status(h) ==
    IF h.connected
    THEN IF h.fsm_state = "READY" THEN "CONNECTED_READY" ELSE "CONNECTED_NOT_READY"
    ELSE IF h.comm_broken THEN "DISCONNECTED"
    ELSE IF h.fsm_state = "CONNECTING" THEN "CONNECTING"
    ELSE "DISCONNECTED"

init_comm(s) == reset_comm(comm_open(s))

send_disconnect(s, disconnect_callback) ==
    [s EXCEPT !.device_handler.disconnection_requested = TRUE,
              !.device_handler.disconnect_callback = disconnect_callback,
              !.cb_calls = <<>>]

stop_comm(s) == reset_comm(comm_close(s))

disconnect_complete_success(s) ==
    [s EXCEPT !.device_handler.disconnect_complete = TRUE,
              !.cb_calls = IF s.device_handler.disconnect_callback # None
                           THEN Append(@, TRUE) ELSE @]

\* Declared without self: the bound method cannot be called with
\* (request, params), and its body could not name self either.
disconnect_complete_failure(s) == Raise(s, "TypeError")

\* RequestRecord.complete(): the record is completed and its callback invoked
complete(s, success, response) ==
    LET kind == Get(s.device_handler.active_request_record).kind
        s1 == [s EXCEPT !.device_handler.active_request_record =
                            Some([kind |-> kind, completed |-> TRUE]),
                        !.ev.completed =
                            IF kind = "disconnect" THEN "disconnect"
                            ELSE IF kind \in PollerKinds THEN "poller"
                            ELSE "other",
                        !.ev.success = success]
    IN  CASE kind = "discover" -> device_searcher_callback(s1, success, response)
          [] kind = "connect" -> session_initializer_callback(s1, success, response)
          [] kind = "heartbeat" -> heartbeat_generator_callback(s1, success, response)
          [] kind = "disconnect" ->
                IF success THEN disconnect_complete_success(s1)
                ELSE disconnect_complete_failure(s1)
          [] OTHER ->
                IF success THEN ip_success_callback(s1, response)
                ELSE ip_failure_callback(s1)

NoResponse ==
    [kind |-> "none", parse_ok |-> FALSE, code |-> "OK", valid |-> FALSE,
     data |-> NoData]

\* lines 354-358
hc_timed_out(s) ==
    complete(comm_idle([s EXCEPT !.device_handler.comm_broken = TRUE,
                                 !.ev.comm = "timeout"]),
             FALSE, NoResponse)

\* lines 361-371: the except clause also catches what the success callback raises
hc_response(s) ==
    LET response == Get(s.comm_handler.response)
        s1 == comm_idle(s)
        r == complete(s1, TRUE, response)
    IN  IF response.parse_ok /\ r.exc = "none" THEN r
        ELSE LET s2 == IF response.parse_ok
                       THEN [r EXCEPT !.exc = "none", !.ev.comm = "callback_error"]
                       ELSE [s1 EXCEPT !.ev.comm = "parse_error"]
             IN  complete([s2 EXCEPT !.device_handler.comm_broken = TRUE],
                          FALSE, NoResponse)

\* lines 373-376
hc_idle(s) ==
    complete(comm_idle([s EXCEPT !.device_handler.comm_broken = TRUE,
                                 !.ev.comm = "idle"]),
             FALSE, NoResponse)

\* lines 348-352
hc_send_next(s) ==
    IF Len(s.dispatcher) = 0 THEN s
    ELSE LET i == next_index(s.dispatcher)
             record == s.dispatcher[i]
         IN  send_request(
                 [s EXCEPT !.dispatcher = remove_at(@, i),
                           !.device_handler.active_request_record =
                               Some([kind |-> record.kind, completed |-> FALSE])],
                 record.kind)

\* lines 378-380
hc_release(s) ==
    IF s.device_handler.active_request_record # None
       /\ Get(s.device_handler.active_request_record).completed
    THEN [s EXCEPT !.device_handler.active_request_record = None]
    ELSE s

handle_comm(s, e) ==
    LET s0 == comm_process(s, e) IN
    IF ~is_open(s0) THEN s0
    ELSE IF s0.device_handler.active_request_record = None THEN hc_send_next(s0)
    ELSE LET s1 == IF has_timed_out(s0) THEN hc_timed_out(s0)
                   ELSE IF waiting_response(s0)
                        THEN IF response_available(s0) THEN hc_response(s0) ELSE s0
                        ELSE hc_idle(s0)
         IN  IF s1.exc # "none" THEN s1 ELSE hc_release(s1)


\* Each state's branch of do_state_machine gives the state after the branch
\* and the branch's next_state.
Branch(s, next_state) == [s |-> s, next_state |-> next_state]

dsm_INIT(s) ==
    LET s1 == reset_comm(s) IN
    Branch(s1, IF is_open(s1) THEN "DISCOVERING" ELSE "INIT")

\* the DISCOVERING branch going on without storing the id that was found
dsm_DISCOVERING_id_not_stored(s, state_entry) ==
    LET s1 == IF state_entry THEN [s EXCEPT !.device_searcher.started = TRUE] ELSE s
    IN  IF s1.device_searcher.found_device # None
        THEN Branch([s1 EXCEPT !.device_searcher.started = FALSE], "CONNECTING")
        ELSE Branch(s1, "DISCOVERING")

dsm_DISCOVERING(s, state_entry) ==
    LET s1 == IF state_entry THEN [s EXCEPT !.device_searcher.started = TRUE] ELSE s
        found_device_id == s1.device_searcher.found_device
        s2 == IF found_device_id # None /\ s1.device_handler.device_id = None
              THEN [s1 EXCEPT !.device_handler.device_id = found_device_id]
              ELSE s1
    IN  IF s2.device_handler.device_id # None
        THEN Branch([s2 EXCEPT !.device_searcher.started = FALSE], "CONNECTING")
        ELSE Branch(s2, "DISCOVERING")

\* lines 254-262 without line 260
dsm_connection_successful_unconnected(s) ==
    [s EXCEPT !.session_initializer.started = FALSE,
              !.device_handler.session_id = s.session_initializer.session_id,
              !.heartbeat_generator.session_id = s.session_initializer.session_id,
              !.heartbeat_generator.started = TRUE]

\* lines 254-262 also starting the poller, one tick before line 275 would
dsm_connection_successful_starting_poller(s) ==
    [s EXCEPT !.session_initializer.started = FALSE,
              !.device_handler.session_id = s.session_initializer.session_id,
              !.heartbeat_generator.session_id = s.session_initializer.session_id,
              !.heartbeat_generator.started = TRUE,
              !.device_handler.connected = TRUE,
              !.info_poller.started = TRUE]

\* lines 254-262
dsm_connection_successful(s) ==
    [s EXCEPT !.session_initializer.started = FALSE,
              !.device_handler.session_id = s.session_initializer.session_id,
              !.heartbeat_generator.session_id = s.session_initializer.session_id,
              !.heartbeat_generator.started = TRUE,
              !.device_handler.connected = TRUE]

dsm_CONNECTING(s, state_entry) ==
    LET s1 == IF state_entry THEN [s EXCEPT !.session_initializer.started = TRUE]
              ELSE s
    IN  IF connection_successful(s1)
        THEN IF s1.session_initializer.session_id = None
             THEN Branch(Raise([s1 EXCEPT !.session_initializer.started = FALSE],
                               "TypeError"), "CONNECTING")
             ELSE Branch(dsm_connection_successful(s1), "POLLING_INFO")
        ELSE IF session_initializer_is_in_error(s1)
        THEN Branch([s1 EXCEPT !.session_initializer.started = FALSE,
                               !.device_handler.comm_broken = TRUE], "CONNECTING")
        ELSE IF s1.device_handler.disconnection_requested
        THEN Branch(s1, "DISCONNECTING")
        ELSE Branch(s1, "CONNECTING")

\* lines 281-290
dsm_poller_done(s) ==
    LET s1 == info_poller_stop(
                  [s EXCEPT !.device_handler.device_info = Some(s.info_poller.info)])
    IN  IF ~all_ready(Get(s1.device_handler.device_info))
        THEN Branch(s1, "INIT")
        ELSE Branch(s1, "READY")

\* lines 277-279 treating the poller's error as a broken link
dsm_poller_error_broken(s) ==
    Branch([s EXCEPT !.device_handler.comm_broken = TRUE], "INIT")

\* lines 277-279
dsm_poller_error(s) == Branch(s, "INIT")

dsm_POLLING_INFO(s, state_entry) ==
    LET n1 == IF s.device_handler.disconnection_requested THEN "DISCONNECTING"
              ELSE "POLLING_INFO"
        s1 == IF state_entry THEN info_poller_start(s) ELSE s
    IN  IF is_in_error(s1) THEN dsm_poller_error(s1)
        ELSE IF done(s1) THEN dsm_poller_done(s1)
        ELSE Branch(s1, n1)

dsm_READY(s, state_entry) ==
    IF s.device_handler.disconnection_requested THEN Branch(s, "DISCONNECTING")
    ELSE Branch(s, "READY")

\* line 318 compares next_state with DISCONNECTING and drops the result
dsm_DISCONNECTING(s, state_entry) ==
    LET s1 == IF state_entry
              THEN [s EXCEPT !.device_handler.disconnect_complete = FALSE] ELSE s
    IN  IF ~s1.device_handler.connected THEN Branch(s1, "INIT")
        ELSE IF state_entry
        THEN Branch(register_request(s1, "disconnect", Priority.disconnect),
                    "DISCONNECTING")
        ELSE Branch(s1, "DISCONNECTING")

\* lines 213-215
dsm_comm_broken(s) ==
    IF s.device_handler.comm_broken
    THEN [s EXCEPT !.device_handler.comm_broken_count = @ + 1,
                   !.device_handler.fsm_state = "INIT"]
    ELSE s

\* lines 217-218 evaluate the heartbeat comparison and drop the result
dsm_heartbeat(s, heartbeat_expired) ==
    [s EXCEPT !.ev.heartbeat_expired = s.device_handler.connected /\ heartbeat_expired]

do_state_machine(s, heartbeat_expired) ==
    LET s1 == dsm_heartbeat(dsm_comm_broken(s), heartbeat_expired)
        h == s1.device_handler
        state_entry == h.fsm_state # h.last_fsm_state
        b == CASE h.fsm_state = "INIT" -> dsm_INIT(s1)
               [] h.fsm_state = "DISCOVERING" -> dsm_DISCOVERING(s1, state_entry)
               [] h.fsm_state = "CONNECTING" -> dsm_CONNECTING(s1, state_entry)
               [] h.fsm_state = "POLLING_INFO" -> dsm_POLLING_INFO(s1, state_entry)
               [] h.fsm_state = "READY" -> dsm_READY(s1, state_entry)
               [] h.fsm_state = "DISCONNECTING" ->
                      dsm_DISCONNECTING(s1, state_entry)
    IN  IF b.s.exc # "none" THEN b.s
        ELSE [b.s EXCEPT !.device_handler.last_fsm_state =
                             b.s.device_handler.fsm_state,
                         !.device_handler.fsm_state = b.next_state]

\* process() running do_state_machine before handle_comm
process_fsm_before_comm(s, timer, heartbeat_expired, e) ==
    LET s1 == device_searcher_process(s, timer)
        s2 == heartbeat_generator_process(s1, timer)
        s3 == info_poller_process(s2)
        s4 == IF s3.exc # "none" THEN s3 ELSE session_initializer_process(s3)
        s5 == IF s4.exc # "none" THEN s4
              ELSE do_state_machine(s4, heartbeat_expired)
    IN  IF s5.exc # "none" THEN s5 ELSE handle_comm(s5, e)

\* process(): the generators, then handle_comm, then do_state_machine
process(s, timer, heartbeat_expired, e) ==
    LET s1 == device_searcher_process(s, timer)
        s2 == heartbeat_generator_process(s1, timer)
        s3 == info_poller_process(s2)
        s4 == IF s3.exc # "none" THEN s3 ELSE session_initializer_process(s3)
        s5 == IF s4.exc # "none" THEN s4 ELSE handle_comm(s4, e)
    IN  IF s5.exc # "none" THEN s5 ELSE do_state_machine(s5, heartbeat_expired)

-----------------------------------------------------------------------------
(* SFDStorage and Datastore, as ActiveSFDHandler uses them.  A firmware      *)
(* description is named by its firmware id; a datastore entry by its display *)
(* path.                                                                     *)

InstalledFirmwareIds == {"ABCD1234", "BBBB0002"}
KnownFirmwareIds == InstalledFirmwareIds \cup {"FFFF0000"}

SFDStorage_is_installed(firmware_id) == firmware_id \in InstalledFirmwareIds

\* SFDStorage.get(firmware_id).get_vars_for_datastore(): the second description
\* lists a path twice and a variable the datastore refuses
get_vars_for_datastore(sfd) ==
    IF sfd = "ABCD1234"
    THEN << [display_path |-> "/a", valid |-> TRUE],
            [display_path |-> "/b", valid |-> TRUE] >>
    ELSE << [display_path |-> "/a", valid |-> TRUE],
            [display_path |-> "/a", valid |-> TRUE],
            [display_path |-> "/bad", valid |-> FALSE],
            [display_path |-> "/c", valid |-> TRUE] >>

Datastore_clear == {}

\* Datastore.add_entry raises for a duplicate or an invalid entry
add_entry_raises(ds, entry) == entry.display_path \in ds \/ ~entry.valid

add_entry(ds, entry) == ds \cup {entry.display_path}

\* DeviceHandler.get_device_id()
get_device_id(h) == h.device_id

-----------------------------------------------------------------------------
(* ActiveSFDHandler.  Its operators work on the record                      *)
(*   [sfd_handler, datastore, exc, log]                                      *)
(* where log is what the running operation has done so far.                  *)

NoSfdLog ==
    [loaded_calls |-> <<>>,     \* (callback, sfd) of each loaded-callback call
     unloaded_calls |-> <<>>,   \* the callback of each unloaded-callback call
     offered |-> <<>>,          \* display path of each add_entry call
     notifications |-> <<>>,    \* "loaded" / "unloaded" for each loop over a
                                \* callback list
     warned |-> FALSE,          \* 'No SFD file installed' was logged
     critical |-> FALSE]        \* 'No device ID available' was logged

SfdState ==
    [sfd_handler |-> sfd_handler, datastore |-> datastore,
     exc |-> "none", log |-> NoSfdLog]

\* reset_active_sfd without the must_call_callback test
reset_active_sfd_always_calling(a) ==
    [a EXCEPT !.sfd_handler.sfd = None,
              !.datastore = Datastore_clear,
              !.log.unloaded_calls = @ \o a.sfd_handler.unloaded_callbacks,
              !.log.notifications = Append(@, "unloaded")]

\* reset_active_sfd(): a raising callback is logged and the next one is called
reset_active_sfd(a) ==
    LET must_call_callback == a.sfd_handler.sfd # None
        a1 == [a EXCEPT !.sfd_handler.sfd = None,
                        !.datastore = Datastore_clear]
    IN  IF must_call_callback
        THEN [a1 EXCEPT !.log.unloaded_calls =
                            @ \o a.sfd_handler.unloaded_callbacks,
                        !.log.notifications = Append(@, "unloaded")]
        ELSE a1

\* the state after ActiveSFDHandler.__init__(device_handler, datastore)
ActiveSFDHandler_init ==
    [autoload |-> TRUE, sfd |-> None,
     previous_device_status |-> "UNKNOWN",
     requested_firmware_id |-> None,
     loaded_callbacks |-> <<>>, unloaded_callbacks |-> <<>>]

register_sfd_loaded_callback(a, callback) ==
    [a EXCEPT !.sfd_handler.loaded_callbacks = Append(@, callback)]

register_sfd_unloaded_callback(a, callback) ==
    [a EXCEPT !.sfd_handler.unloaded_callbacks = Append(@, callback)]

\* init() notifying the unloaded-callbacks whether an SFD is loaded or not
ActiveSFDHandler_init_call_always_unloading(a) ==
    [a EXCEPT !.sfd_handler.sfd = None,
              !.datastore = Datastore_clear,
              !.log.unloaded_calls = @ \o a.sfd_handler.unloaded_callbacks,
              !.log.notifications = Append(@, "unloaded")]

\* init()
ActiveSFDHandler_init_call(a) == reset_active_sfd(a)

set_autoload(a, val) == [a EXCEPT !.sfd_handler.autoload = val]

\* request_load_sfd storing the id before the test
request_load_sfd_unchecked(a, firmware_id) ==
    LET a1 == [a EXCEPT !.sfd_handler.requested_firmware_id = Some(firmware_id)]
    IN  IF ~SFDStorage_is_installed(firmware_id)
        THEN [a1 EXCEPT !.exc = "Exception"]
        ELSE a1

request_load_sfd(a, firmware_id) ==
    IF ~SFDStorage_is_installed(firmware_id)
    THEN [a EXCEPT !.exc = "Exception"]
    ELSE [a EXCEPT !.sfd_handler.requested_firmware_id = Some(firmware_id)]

\* the loop of load_sfd leaving at the first add_entry that raises
RECURSIVE add_entries_until_error(_, _, _)
add_entries_until_error(a, entries, i) ==
    IF i > Len(entries) THEN a
    ELSE LET a1 == [a EXCEPT !.log.offered = Append(@, entries[i].display_path)]
         IN  IF add_entry_raises(a1.datastore, entries[i])
             THEN a1
             ELSE add_entries_until_error(
                      [a1 EXCEPT !.datastore = add_entry(@, entries[i])],
                      entries, i + 1)

\* the loop of load_sfd (lines 110-116) from the i-th entry on
RECURSIVE add_entries(_, _, _)
add_entries(a, entries, i) ==
    IF i > Len(entries) THEN a
    ELSE LET a1 == [a EXCEPT !.log.offered = Append(@, entries[i].display_path)]
             a2 == IF add_entry_raises(a1.datastore, entries[i])
                   THEN a1
                   ELSE [a1 EXCEPT !.datastore = add_entry(@, entries[i])]
         IN  add_entries(a2, entries, i + 1)

\* the calls of lines 118-123
call_loaded_callbacks(a) ==
    [a EXCEPT !.log.loaded_calls =
        @ \o [i \in 1..Len(a.sfd_handler.loaded_callbacks) |->
                [callback |-> a.sfd_handler.loaded_callbacks[i],
                 sfd |-> Get(a.sfd_handler.sfd)]],
              !.log.notifications = Append(@, "loaded")]

\* load_sfd without datastore.clear()
load_sfd_without_clear(a, firmware_id, verbose) ==
    LET a1 == [a EXCEPT !.sfd_handler.sfd = None]
    IN  IF SFDStorage_is_installed(firmware_id)
        THEN call_loaded_callbacks(
                 add_entries([a1 EXCEPT !.sfd_handler.sfd = Some(firmware_id)],
                             get_vars_for_datastore(firmware_id), 1))
        ELSE IF verbose THEN [a1 EXCEPT !.log.warned = TRUE] ELSE a1

load_sfd(a, firmware_id, verbose) ==
    LET a1 == [a EXCEPT !.sfd_handler.sfd = None,
                        !.datastore = Datastore_clear]
    IN  IF SFDStorage_is_installed(firmware_id)
        THEN call_loaded_callbacks(
                 add_entries([a1 EXCEPT !.sfd_handler.sfd = Some(firmware_id)],
                             get_vars_for_datastore(firmware_id), 1))
        ELSE IF verbose THEN [a1 EXCEPT !.log.warned = TRUE] ELSE a1

get_loaded_sfd(a) == a.sfd_handler.sfd

\* process() following the device also when autoload is off
ActiveSFDHandler_process_ignoring_autoload(a, h) ==
    LET device_status == get_connection_status(h)
        a1 == IF device_status # "CONNECTED_READY" THEN reset_active_sfd(a)
              ELSE IF a.sfd_handler.sfd # None THEN a
              ELSE LET verbose ==
                           a.sfd_handler.previous_device_status # device_status
                       device_id == get_device_id(h)
                   IN  IF device_id # None
                       THEN load_sfd(a, Get(device_id), verbose)
                       ELSE [a EXCEPT !.log.critical = TRUE]
        a2 == IF a1.sfd_handler.requested_firmware_id # None
              THEN [load_sfd(a1, Get(a1.sfd_handler.requested_firmware_id), TRUE)
                       EXCEPT !.sfd_handler.requested_firmware_id = None]
              ELSE a1
    IN  [a2 EXCEPT !.sfd_handler.previous_device_status = device_status]

\* process(), h being the DeviceHandler it polls
ActiveSFDHandler_process(a, h) ==
    LET device_status == get_connection_status(h)
        a1 == IF ~a.sfd_handler.autoload THEN a
              ELSE IF device_status # "CONNECTED_READY" THEN reset_active_sfd(a)
              ELSE IF a.sfd_handler.sfd # None THEN a
              ELSE LET verbose ==
                           a.sfd_handler.previous_device_status # device_status
                       device_id == get_device_id(h)
                   IN  IF device_id # None
                       THEN load_sfd(a, Get(device_id), verbose)
                       ELSE [a EXCEPT !.log.critical = TRUE]
        a2 == IF a1.sfd_handler.requested_firmware_id # None
              THEN [load_sfd(a1, Get(a1.sfd_handler.requested_firmware_id), TRUE)
                       EXCEPT !.sfd_handler.requested_firmware_id = None]
              ELSE a1
    IN  [a2 EXCEPT !.sfd_handler.previous_device_status = device_status]

-----------------------------------------------------------------------------
(* The operations as actions *)

\* the DeviceHandler's side of the end of an operation
CommitDevice(s, op) ==
    /\ Len(s.dispatcher) <= MaxQueue
    /\ device_handler' = s.device_handler
    /\ info_poller' = s.info_poller
    /\ device_searcher' = s.device_searcher
    /\ session_initializer' = s.session_initializer
    /\ heartbeat_generator' = s.heartbeat_generator
    /\ dispatcher' = s.dispatcher
    /\ comm_handler' = s.comm_handler
    /\ protocol' = s.protocol
    /\ cb_calls' = s.cb_calls
    /\ last' = [op |-> op, exc |-> s.exc, ev |-> s.ev,
                stage_entry_info |-> s.stage_entry_info]

Commit(s, op) ==
    /\ CommitDevice(s, op)
    /\ UNCHANGED << sfd_handler, datastore, sfd_last, sfd_notified, happy_ticks >>

\* the state after DeviceHandler.__init__ and ActiveSFDHandler.__init__
Init ==
    /\ device_handler = DeviceHandler_init
    /\ info_poller = InfoPoller_init
    /\ device_searcher = DeviceSearcher_reset
    /\ session_initializer = SessionInitializer_reset
    /\ heartbeat_generator = HeartbeatGenerator_reset
    /\ dispatcher = <<>>
    /\ comm_handler = CommHandler_closed
    /\ protocol = [address_size |-> default_address_size,
                   version |-> default_protocol_version]
    /\ cb_calls = <<>>
    /\ last = [op |-> "init", exc |-> "none", ev |-> NoEvents,
               stage_entry_info |-> DeviceInfo_clear]
    /\ sfd_handler = ActiveSFDHandler_init
    /\ datastore = Datastore_clear
    /\ sfd_last = [op |-> "init", arg |-> None, exc |-> "none", log |-> NoSfdLog]
    /\ sfd_notified = "none"
    /\ happy_ticks = None

\* The inputs of a tick, each drawn only where the tick reads it: the link
\* delivers something only to a comm handler that waits, the interval timers are
\* read only by an armed generator with nothing pending, and the heartbeat
\* comparison is evaluated only when connected.
TickEvents ==
    IF comm_handler.open /\ comm_handler.state = "waiting"
    THEN LinkEvents(comm_handler.request) ELSE {[type |-> "none"]}

TickTimers ==
    IF \/ device_searcher.started /\ ~device_searcher.pending
       \/ heartbeat_generator.started /\ ~heartbeat_generator.pending
    THEN BOOLEAN ELSE {FALSE}

TickHeartbeats == IF device_handler.connected THEN BOOLEAN ELSE {FALSE}

Process ==
    \E timer \in TickTimers, heartbeat_expired \in TickHeartbeats, e \in TickEvents :
        Commit(process(State, timer, heartbeat_expired, e), "process")

InitComm == Commit(init_comm(State), "init_comm")

StopComm == Commit(stop_comm(State), "stop_comm")

\* send_disconnect(cb) with a callback cb of the caller
SendDisconnect == Commit(send_disconnect(State, Some("cb")), "send_disconnect")

Next == Process \/ InitComm \/ StopComm \/ SendDisconnect

Spec == Init /\ [][Next]_vars

-----------------------------------------------------------------------------
(* The ActiveSFDHandler on its own: its operations, and a DeviceHandler that *)
(* is seen only through get_connection_status() and get_device_id().         *)

\* arg is the firmware id the operation was called with, None if it takes none
SfdCommit(a, op, arg) ==
    /\ sfd_handler' = a.sfd_handler
    /\ datastore' = a.datastore
    /\ sfd_last' = [op |-> op, arg |-> arg, exc |-> a.exc, log |-> a.log]
    /\ sfd_notified' = IF a.log.notifications = <<>> THEN sfd_notified
                       ELSE a.log.notifications[Len(a.log.notifications)]
    /\ UNCHANGED happy_ticks
    /\ UNCHANGED << device_handler, info_poller, device_searcher,
                    session_initializer, heartbeat_generator, dispatcher,
                    comm_handler, protocol, cb_calls, last >>

\* a DeviceInfo with every field polled
DeviceInfo_polled ==
    [protocol_major |-> Some(1), protocol_minor |-> Some(0),
     max_tx_data_size |-> Some(256), max_rx_data_size |-> Some(128),
     max_bitrate_bps |-> Some(100000), rx_timeout_us |-> Some(50000),
     heartbeat_timeout_us |-> Some(5000000), address_size_bits |-> Some(16),
     supported_feature_map |->
         Some([memory_read |-> TRUE, memory_write |-> TRUE,
               datalog_acquire |-> TRUE, user_command |-> TRUE]),
     forbidden_memory_regions |-> Some(<<>>),
     readonly_memory_regions |-> Some(<<>>)]

\* what the DeviceHandler's attributes are between two of its operations, as
\* far as the ActiveSFDHandler can tell: searching, connecting to a discovered
\* device, polling it, or ready
DeviceSituations ==
    {DeviceHandler_init}
    \cup {[DeviceHandler_init EXCEPT !.fsm_state = "CONNECTING",
                                     !.last_fsm_state = "CONNECTING",
                                     !.device_id = Some("ABCD1234")]}
    \cup {[DeviceHandler_init EXCEPT !.fsm_state = "POLLING_INFO",
                                     !.last_fsm_state = "POLLING_INFO",
                                     !.connected = TRUE,
                                     !.session_id = Some(305419896),
                                     !.device_id = Some("ABCD1234")]}
    \cup {[DeviceHandler_init EXCEPT !.fsm_state = "READY",
                                     !.last_fsm_state = "READY",
                                     !.connected = TRUE,
                                     !.session_id = Some(305419896),
                                     !.device_id = Some(f),
                                     !.device_info = Some(DeviceInfo_polled)] :
              f \in {"ABCD1234", "FFFF0000"}}

SfdProcess ==
    SfdCommit(ActiveSFDHandler_process(SfdState, device_handler), "process", None)

RequestLoadSfd ==
    \E firmware_id \in KnownFirmwareIds :
        SfdCommit(request_load_sfd(SfdState, firmware_id), "request_load_sfd",
                  Some(firmware_id))

LoadSfd ==
    \E firmware_id \in KnownFirmwareIds :
        SfdCommit(load_sfd(SfdState, firmware_id, TRUE), "load_sfd",
                  Some(firmware_id))

SetAutoload ==
    \E val \in BOOLEAN :
        SfdCommit(set_autoload(SfdState, val), "set_autoload", None)

\* a callback is named by its place in the list; it returns or raises, and
\* the callbacks that raise are registered first
CallbackKinds(callbacks) == IF callbacks = <<>> THEN BOOLEAN ELSE {FALSE}

RegisterLoadedCallback ==
    /\ Len(sfd_handler.loaded_callbacks) < MaxCallbacks
    /\ \E raises \in CallbackKinds(sfd_handler.loaded_callbacks) :
           SfdCommit(register_sfd_loaded_callback(SfdState,
                         [id |-> Len(sfd_handler.loaded_callbacks) + 1,
                          raises |-> raises]),
                     "register_sfd_loaded_callback", None)

RegisterUnloadedCallback ==
    /\ Len(sfd_handler.unloaded_callbacks) < MaxCallbacks
    /\ \E raises \in CallbackKinds(sfd_handler.unloaded_callbacks) :
           SfdCommit(register_sfd_unloaded_callback(SfdState,
                         [id |-> Len(sfd_handler.unloaded_callbacks) + 1,
                          raises |-> raises]),
                     "register_sfd_unloaded_callback", None)

SfdInitCall == SfdCommit(ActiveSFDHandler_init_call(SfdState), "init", None)

\* the DeviceHandler has gone on
DeviceChanges ==
    /\ device_handler' \in DeviceSituations \ {device_handler}
    /\ sfd_last' = [op |-> "device", arg |-> None, exc |-> "none",
                    log |-> NoSfdLog]
    /\ UNCHANGED << info_poller, device_searcher, session_initializer,
                    heartbeat_generator, dispatcher, comm_handler, protocol,
                    cb_calls, last, sfd_handler, datastore, sfd_notified,
                    happy_ticks >>

SfdNext ==
    \/ SfdProcess \/ RequestLoadSfd \/ LoadSfd \/ SetAutoload
    \/ RegisterLoadedCallback \/ RegisterUnloadedCallback \/ SfdInitCall
    \/ DeviceChanges

SfdSpec == Init /\ [][SfdNext]_vars

-----------------------------------------------------------------------------
(* The happy path: the link is opened once and every request is answered,   *)
(* on the tick after it was sent, with a valid answer the handler accepts.   *)

HappyResponses(kind) ==
    {r \in Responses(kind) :
        /\ r.parse_ok /\ r.code = "OK" /\ r.valid
        /\ kind = "get_protocol_version"
               => << r.data.major, r.data.minor >> \in SupportedVersions
        /\ kind = "comm_get_params" => r.data.address_size_byte = 2}

HappyEvents ==
    IF comm_handler.open /\ comm_handler.state = "waiting"
    THEN {[type |-> "response", response |-> r] :
              r \in HappyResponses(comm_handler.request)}
    ELSE {[type |-> "none"]}

HappyInitComm ==
    /\ ~comm_handler.open
    /\ CommitDevice(init_comm(State), "init_comm")
    /\ UNCHANGED << sfd_handler, datastore, sfd_last, sfd_notified, happy_ticks >>

\* the tick that stores the device id is tick 0
HappyProcess ==
    /\ comm_handler.open
    /\ happy_ticks # None => Get(happy_ticks) < MaxHappyTicks
    /\ \E timer \in TickTimers, e \in HappyEvents :
           CommitDevice(process(State, timer, FALSE, e), "process")
    /\ happy_ticks' =
           IF happy_ticks # None THEN Some(Get(happy_ticks) + 1)
           ELSE IF device_handler'.device_id # None THEN Some(0)
           ELSE None
    /\ UNCHANGED << sfd_handler, datastore, sfd_last, sfd_notified >>

HappyNext == HappyInitComm \/ HappyProcess

HappySpec == Init /\ [][HappyNext]_vars

-----------------------------------------------------------------------------
(* The properties *)

\* the operation just committed was a tick that raised nothing
TickDone == last.op = "process" /\ last.exc = "none"

\* C1: once the disconnect request sent after send_disconnect(cb) has been
\* answered (cb was invoked with True, disconnect_complete is set), the FSM
\* returns to INIT: a tick that starts in DISCONNECTING with the round trip
\* complete does not end in DISCONNECTING.
C1_DisconnectReturnsToInit ==
    [][(/\ device_handler.fsm_state = "DISCONNECTING"
        /\ device_handler.disconnect_complete
        /\ cb_calls = <<TRUE>>
        /\ last'.op = "process" /\ last'.exc = "none")
          => device_handler'.fsm_state # "DISCONNECTING"]_vars

\* the disconnect request was answered, cb(True) was called once, and a later
\* tick has run the DISCONNECTING branch again without leaving the state
C1_Stuck ==
    /\ TickDone
    /\ device_handler.fsm_state = "DISCONNECTING"
    /\ device_handler.last_fsm_state = "DISCONNECTING"
    /\ device_handler.disconnect_complete
    /\ device_handler.active_request_record = None
    /\ cb_calls = <<TRUE>>

\* C2: when the disconnect request of the DISCONNECTING state is completed with
\* failure, the callback given to send_disconnect has been invoked exactly once,
\* with False, and disconnect_complete is true.
C2_FailureCallbackInvoked ==
    (/\ last.op = "process"
     /\ last.ev.completed = "disconnect" /\ ~last.ev.success
     /\ device_handler.fsm_state = "DISCONNECTING"
     /\ device_handler.disconnect_callback # None)
        => (cb_calls = <<FALSE>> /\ device_handler.disconnect_complete)

\* the disconnect request timed out and process() raised TypeError instead
C2_FailureRaises ==
    /\ last.op = "process"
    /\ last.ev.completed = "disconnect" /\ ~last.ev.success
    /\ last.ev.comm = "timeout"
    /\ device_handler.fsm_state = "DISCONNECTING"
    /\ device_handler.disconnect_callback # None
    /\ last.exc = "TypeError"
    /\ cb_calls = <<>>
    /\ ~device_handler.disconnect_complete

\* C3: a tick in which a transport error sets comm_broken leaves
\* comm_broken_count exactly 1 higher than it was before the tick.
C3_CountIncrements ==
    [][(last'.op = "process" /\ last'.exc = "none" /\ last'.ev.comm # "none")
          => device_handler'.comm_broken_count
                 = device_handler.comm_broken_count + 1]_vars

\* a request timed out in the tick, the FSM went through INIT, and the count is 0
C3_CountReset ==
    /\ TickDone
    /\ last.ev.comm = "timeout"
    /\ device_handler.fsm_state = "DISCOVERING"
    /\ device_handler.comm_broken_count = 0

\* C4: a tick that, while connected, finds the last valid heartbeat older than
\* heartbeat_timeout treats the link as broken: comm_broken is set or the FSM
\* is back in INIT (DISCOVERING if the link is open).
C4_HeartbeatTimeoutBreaks ==
    (TickDone /\ last.ev.heartbeat_expired)
        => \/ device_handler.comm_broken
           \/ device_handler.fsm_state \in {"INIT", "DISCOVERING"}

\* the heartbeat was overdue in the tick and the FSM is still READY, connected
C4_TimeoutIgnored ==
    /\ TickDone
    /\ last.ev.heartbeat_expired
    /\ last.ev.comm = "none"
    /\ device_handler.fsm_state = "READY"
    /\ device_handler.last_fsm_state = "READY"
    /\ device_handler.connected
    /\ ~device_handler.comm_broken

\* C5: after construction and after every operation (process, init_comm,
\* stop_comm, send_disconnect), connected is true exactly when session_id is set.
C5_ConnectedIffSession ==
    device_handler.connected <=> device_handler.session_id # None

\* the tick that found the session initializer successful
C5_Connected ==
    /\ TickDone
    /\ device_handler.last_fsm_state = "CONNECTING"
    /\ device_handler.fsm_state = "POLLING_INFO"
    /\ device_handler.connected
    /\ device_handler.session_id \in {Some(i) : i \in SessionIds}

\* C6: the FSM enters READY only from POLLING_INFO, in a tick at whose end the
\* poller is in Done and the DeviceInfo copied from it satisfies all_ready().
C6_ReadyOnlyWhenPolled ==
    [][(device_handler.fsm_state # "READY" /\ device_handler'.fsm_state = "READY")
          => /\ device_handler.fsm_state = "POLLING_INFO"
             /\ last'.op = "process"
             /\ info_poller'.fsm_state = "Done"
             /\ device_handler'.device_info = Some(info_poller'.info)
             /\ all_ready(Get(device_handler'.device_info))]_vars

\* the tick that moved POLLING_INFO to READY
C6_EnteredReady ==
    /\ TickDone
    /\ device_handler.last_fsm_state = "POLLING_INFO"
    /\ device_handler.fsm_state = "READY"
    /\ info_poller.fsm_state = "Done"
    /\ device_handler.device_info = Some(info_poller.info)

\* C7: whenever the FSM is in READY, and so whenever it has moved from
\* POLLING_INFO to READY, the stored device_info.address_size_bits is one of
\* 8, 16, 32, 64.
C7_AddressSizeAtReady ==
    device_handler.fsm_state = "READY"
        => /\ device_handler.device_info # None
           /\ Get(device_handler.device_info).address_size_bits
                  \in {Some(8), Some(16), Some(32), Some(64)}

\* READY was entered with a 16-bit device, and the protocol was configured for it
C7_ReadyWith16Bits ==
    /\ TickDone
    /\ device_handler.last_fsm_state = "POLLING_INFO"
    /\ device_handler.fsm_state = "READY"
    /\ Get(device_handler.device_info).address_size_bits = Some(16)
    /\ protocol.address_size = 16

\* C8: a tick in which protocol_version_callback or comm_param_callback raises
\* ends with the poller in Error; if the Device Handler was in POLLING_INFO and
\* the tick met no transport error, it ends with the FSM in INIT, reached from
\* the POLLING_INFO branch, comm_broken false and comm_broken_count unchanged.
C8_CallbackErrorResets ==
    [][(last'.op = "process" /\ last'.ev.callback_raised)
          => /\ info_poller'.fsm_state = "Error"
             /\ (/\ device_handler.fsm_state = "POLLING_INFO"
                 /\ last'.exc = "none" /\ last'.ev.comm = "none")
                    => /\ device_handler'.fsm_state = "INIT"
                       /\ device_handler'.last_fsm_state = "POLLING_INFO"
                       /\ ~device_handler'.comm_broken
                       /\ device_handler'.comm_broken_count
                              = device_handler.comm_broken_count]_vars

\* the device reported 3-byte addresses: comm_param_callback raised on 24 bits
C8_Raised24Bits ==
    /\ TickDone
    /\ last.ev.callback_raised
    /\ last.ev.comm = "none"
    /\ info_poller.info.address_size_bits = Some(24)
    /\ info_poller.fsm_state = "Error"
    /\ device_handler.last_fsm_state = "POLLING_INFO"
    /\ device_handler.fsm_state = "INIT"

\* C9: when a request of the poller failed in a requesting state (request_failed
\* set, no stop requested), the very next tick moves the poller to Error.
C9_FailureThenError ==
    [][(/\ last.op = "process"
        /\ last.ev.failure_state \in RequestingStates
        /\ info_poller.fsm_state = last.ev.failure_state
        /\ info_poller.request_failed
        /\ info_poller.started /\ ~info_poller.stop_requested
        /\ last'.op = "process")
          => info_poller'.fsm_state = "Error"]_vars

\* the tick after the device refused get_supported_features: the poller has
\* advanced to GetSpecialMemoryRegionCount
C9_AdvancedAfterFailure ==
    /\ last.op = "process"
    /\ info_poller.request_failed
    /\ info_poller.error_message
           = [what |-> "refused", state |-> "GetSupportedFeatures"]
    /\ info_poller.last_fsm_state = "GetSupportedFeatures"
    /\ info_poller.fsm_state = "GetSpecialMemoryRegionCount"

\* a failure was recorded by a callback of the poller in this tick
PollerRequestFailed ==
    last.op = "process" /\ last.ev.failure_state \in RequestingStates

\* the claim as the specification words it: after a request of the poller has
\* failed, info is what it was before the state was entered, and error_message
\* names the state
C10_InfoAsBeforeStage ==
    PollerRequestFailed
        => /\ info_poller.info = last.stage_entry_info
           /\ info_poller.error_message.state = last.ev.failure_state

\* C10: when a request of the poller fails, the failing callback writes no
\* DeviceInfo field and error_message names the poller's state; in the four
\* single-request states info is what it was before the state was entered, and
\* in a region state only that state's list differs from then: it is a list.
C10_FailureFrame ==
    PollerRequestFailed
        => LET info == info_poller.info
               before == last.stage_entry_info
               state == last.ev.failure_state
           IN  /\ info = last.ev.info_before
               /\ info_poller.error_message.state = state
               /\ info_poller.error_message.what \in {"failed", "refused", "invalid"}
               /\ state \in SingleRequestStates => info = before
               /\ state = "GetForbiddenMemoryRegions"
                      => /\ info.forbidden_memory_regions # None
                         /\ info = [before EXCEPT !.forbidden_memory_regions =
                                        info.forbidden_memory_regions]
               /\ state = "GetReadOnlyMemoryRegions"
                      => /\ info.readonly_memory_regions # None
                         /\ info = [before EXCEPT !.readonly_memory_regions =
                                        info.readonly_memory_regions]

\* the request of a forbidden region failed: the list, None before the state,
\* is the empty list
C10_RegionFailure ==
    /\ PollerRequestFailed
    /\ last.ev.failure_state = "GetForbiddenMemoryRegions"
    /\ last.stage_entry_info.forbidden_memory_regions = None
    /\ info_poller.info.forbidden_memory_regions = Some(<<>>)
    /\ info_poller.error_message.state = "GetForbiddenMemoryRegions"

\* C11: whenever the poller is in Done, both counts are set and each region
\* list has exactly as many entries as its count.
C11_RegionListsComplete ==
    info_poller.fsm_state = "Done"
        => /\ info_poller.forbidden_memory_region_count # None
           /\ info_poller.readonly_memory_region_count # None
           /\ info_poller.info.forbidden_memory_regions # None
           /\ info_poller.info.readonly_memory_regions # None
           /\ Len(Get(info_poller.info.forbidden_memory_regions))
                  = Get(info_poller.forbidden_memory_region_count)
           /\ Len(Get(info_poller.info.readonly_memory_regions))
                  = Get(info_poller.readonly_memory_region_count)

\* Done with one forbidden region and no read-only region
C11_DoneOneAndZero ==
    /\ info_poller.fsm_state = "Done"
    /\ info_poller.forbidden_memory_region_count = Some(1)
    /\ info_poller.readonly_memory_region_count = Some(0)
    /\ info_poller.info.forbidden_memory_regions
           = Some(<<[start |-> 4096, end |-> 8191]>>)
    /\ info_poller.info.readonly_memory_regions = Some(<<>>)

\* the tick raised before handle_comm completed any record: the exception
\* came out of InfoPoller.process()
PollerProcessRaised ==
    last.op = "process" /\ last.exc # "none" /\ last.ev.completed = "none"

\* C12: InfoPoller.process() never aborts with an exception.
C12_ProcessNeverAborts == ~PollerProcessRaised

\* the request of GetSpecialMemoryRegionCount failed, the poller advanced, and
\* process() raised TypeError on range(None) in GetForbiddenMemoryRegions
C12_StuckOnMissingCount ==
    /\ PollerProcessRaised
    /\ last.exc = "TypeError"
    /\ info_poller.fsm_state = "GetForbiddenMemoryRegions"
    /\ info_poller.last_fsm_state = "GetSpecialMemoryRegionCount"
    /\ info_poller.request_failed
    /\ info_poller.forbidden_memory_region_count = None

AfterResetComm ==
    \/ last.op \in {"init_comm", "stop_comm"}
    \/ /\ last.op = "process" /\ last.exc = "none"
       /\ device_handler.last_fsm_state = "INIT"

\* the claim as the specification words it: after reset_comm() device_id is
\* None and the poller's done() and is_in_error() are both false
C14_PollerInactiveAfterReset ==
    AfterResetComm
        => /\ device_handler.device_id = None
           /\ info_poller.fsm_state \notin {"Done", "Error"}

\* C14: right after reset_comm(), device_id is None, the searcher, the session
\* initializer and the heartbeat generator are stopped, and the poller has
\* stop_requested set.
C14_StoppedAfterReset ==
    AfterResetComm
        => /\ device_handler.device_id = None
           /\ ~device_searcher.started
           /\ ~session_initializer.started
           /\ ~heartbeat_generator.started
           /\ info_poller.stop_requested

\* reset_comm() ran in the tick after the poller's error: is_in_error() still holds
C14_ErrorAfterReset ==
    /\ AfterResetComm
    /\ last.op = "process"
    /\ info_poller.stop_requested
    /\ info_poller.fsm_state = "Error"

\* C15: a tick in which the comm handler reports a timeout, an answer that does
\* not parse, or a return to idle completes the active record with
\* success = false and ends with the FSM in INIT or DISCOVERING.
C15_TransportErrorResets ==
    (last.op = "process" /\ last.ev.comm \in {"timeout", "parse_error", "idle"})
        => /\ last.ev.completed # "none" /\ ~last.ev.success
           /\ device_handler.fsm_state \in {"INIT", "DISCOVERING"}
           /\ device_handler.active_request_record = None

\* the disconnect request timed out: the tick raised and the FSM is still in
\* DISCONNECTING, comm_broken set, the record still active
C15_DisconnectTimeout ==
    /\ last.op = "process"
    /\ last.ev.comm = "timeout"
    /\ last.ev.completed = "disconnect"
    /\ last.exc = "TypeError"
    /\ device_handler.fsm_state = "DISCONNECTING"
    /\ device_handler.comm_broken
    /\ device_handler.active_request_record # None

\* C16: a request that was sent stays the active record until it is completed:
\* while the open comm handler waits for a response, there is an active record.
C16_SentStaysActive ==
    (comm_handler.open /\ comm_handler.state = "waiting")
        => device_handler.active_request_record # None

\* a tick ran reset_comm() while a request was in flight: the comm handler
\* still waits for its response and the record is gone
C16_RecordDropped ==
    /\ last.op = "process" /\ last.exc = "none"
    /\ device_handler.last_fsm_state = "INIT"
    /\ comm_handler.open /\ comm_handler.state = "waiting"
    /\ device_handler.active_request_record = None

\* the step is a process() of the ActiveSFDHandler
SfdTick == sfd_last'.op = "process"

\* the display paths of a description that the datastore accepts
accepted_paths(sfd) ==
    {get_vars_for_datastore(sfd)[i].display_path :
        i \in {j \in DOMAIN get_vars_for_datastore(sfd) :
                   get_vars_for_datastore(sfd)[j].valid}}

\* every display path of a description, in the order of get_vars_for_datastore()
all_paths(sfd) ==
    [i \in DOMAIN get_vars_for_datastore(sfd) |->
        get_vars_for_datastore(sfd)[i].display_path]

\* one call of each loaded-callback, in registration order, with the description
each_loaded_callback_once(callbacks, sfd) ==
    [i \in DOMAIN callbacks |-> [callback |-> callbacks[i], sfd |-> sfd]]

\* the claim as the specification words it: with autoload, a tick that sees the
\* status gone from CONNECTED_READY while an SFD is loaded calls each unload
\* callback once and leaves the datastore empty and no SFD loaded
C17_UnloadLeavesNothing ==
    [][(/\ SfdTick
        /\ sfd_handler.autoload
        /\ sfd_handler.sfd # None
        /\ sfd_handler.previous_device_status = "CONNECTED_READY"
        /\ get_connection_status(device_handler) # "CONNECTED_READY")
          => /\ sfd_last'.log.unloaded_calls = sfd_handler.unloaded_callbacks
             /\ sfd_handler'.sfd = None
             /\ datastore' = {}]_vars

\* C17: with autoload, a tick that sees a status other than CONNECTED_READY
\* calls each unload callback exactly once if an SFD was loaded and none if no
\* SFD was loaded; with no load request pending it leaves the datastore empty
\* and no SFD loaded, with a request pending it leaves the requested SFD loaded.
C17_UnloadedOnce ==
    [][(/\ SfdTick
        /\ sfd_handler.autoload
        /\ get_connection_status(device_handler) # "CONNECTED_READY")
          => /\ sfd_last'.log.unloaded_calls =
                    IF sfd_handler.sfd # None
                    THEN sfd_handler.unloaded_callbacks ELSE <<>>
             /\ sfd_handler.requested_firmware_id = None
                    => sfd_handler'.sfd = None /\ datastore' = {}
             /\ sfd_handler.requested_firmware_id # None
                    => /\ sfd_handler'.sfd = sfd_handler.requested_firmware_id
                       /\ datastore' =
                              accepted_paths(Get(sfd_handler.requested_firmware_id))]_vars

\* the device went away: the tick called both unload callbacks, the first of
\* which raises, and nothing is loaded
C17_BothUnloadCallbacksCalled ==
    /\ sfd_last.op = "process"
    /\ sfd_handler.autoload
    /\ sfd_handler.previous_device_status = "DISCONNECTED"
    /\ Len(sfd_handler.unloaded_callbacks) = 2
    /\ sfd_handler.unloaded_callbacks[1].raises
    /\ sfd_last.log.unloaded_calls = sfd_handler.unloaded_callbacks
    /\ sfd_handler.sfd = None
    /\ datastore = {}

\* C18: request_load_sfd with a firmware id that is not installed raises and
\* changes neither the handler (loaded SFD, pending request) nor the datastore.
C18_NotInstalledRaises ==
    [][(/\ sfd_last'.op = "request_load_sfd"
        /\ ~SFDStorage_is_installed(Get(sfd_last'.arg)))
          => /\ sfd_last'.exc = "Exception"
             /\ sfd_handler' = sfd_handler
             /\ datastore' = datastore]_vars

\* the refused request left a loaded SFD and an earlier pending request in place
C18_RefusedWhilePending ==
    /\ sfd_last.op = "request_load_sfd"
    /\ sfd_last.arg = Some("FFFF0000")
    /\ sfd_last.exc = "Exception"
    /\ sfd_handler.requested_firmware_id = Some("BBBB0002")
    /\ sfd_handler.sfd = Some("ABCD1234")
    /\ datastore = {"/a", "/b"}

\* C19: after load_sfd of an installed id, every entry of
\* get_vars_for_datastore() has been offered to the datastore, whichever of
\* them it refused, the SFD is loaded, and each loaded-callback has been called
\* once with it.
C19_RefusedEntrySkipped ==
    (sfd_last.op = "load_sfd" /\ SFDStorage_is_installed(Get(sfd_last.arg)))
        => /\ sfd_last.exc = "none"
           /\ sfd_last.log.offered = all_paths(Get(sfd_last.arg))
           /\ sfd_handler.sfd = sfd_last.arg
           /\ sfd_last.log.loaded_calls =
                  each_loaded_callback_once(sfd_handler.loaded_callbacks,
                                            Get(sfd_last.arg))

\* the description with a duplicate and an invalid entry was loaded: both were
\* refused, "/c" after them is in the datastore, two callbacks were called
C19_LoadedPastRefusals ==
    /\ sfd_last.op = "load_sfd"
    /\ sfd_last.arg = Some("BBBB0002")
    /\ sfd_last.log.offered = << "/a", "/a", "/bad", "/c" >>
    /\ datastore = {"/a", "/c"}
    /\ sfd_handler.sfd = Some("BBBB0002")
    /\ Len(sfd_last.log.loaded_calls) = 2
    /\ sfd_last.log.loaded_calls[1].callback.raises

\* C20: a tick that starts with no device connected and a load request pending
\* ends with the requested SFD loaded, the datastore holding exactly the
\* entries of that SFD that the datastore accepts, each loaded-callback called
\* once with that SFD, and no request pending.
C20_RequestedSfdLoaded ==
    [][(/\ SfdTick
        /\ ~device_handler.connected
        /\ sfd_handler.requested_firmware_id # None)
          => /\ sfd_handler'.sfd = sfd_handler.requested_firmware_id
             /\ datastore' = accepted_paths(Get(sfd_handler.requested_firmware_id))
             /\ sfd_last'.log.loaded_calls =
                    each_loaded_callback_once(
                        sfd_handler.loaded_callbacks,
                        Get(sfd_handler.requested_firmware_id))
             /\ sfd_handler'.requested_firmware_id = None]_vars

\* autoload is off and no device is connected: the tick replaced the content of
\* the first description ("/a", "/b") by that of the requested one
C20_ReplacedContent ==
    /\ sfd_last.op = "process"
    /\ ~sfd_handler.autoload
    /\ ~device_handler.connected
    /\ sfd_handler.sfd = Some("BBBB0002")
    /\ datastore = {"/a", "/c"}
    /\ sfd_handler.requested_firmware_id = None
    /\ Len(sfd_last.log.loaded_calls) = 2
    /\ sfd_last.log.unloaded_calls = <<>>

\* the step is a process() of the DeviceHandler that ran to its end
Tick == last'.op = "process" /\ last'.exc = "none"

\* stop() has been called on the poller and it has not been started since
PollerStopped(p) == p.stop_requested \/ ~p.started

\* C22: a tick that takes the FSM out of DISCOVERING, CONNECTING or
\* POLLING_INFO ends with the generator of the state that was left stopped.
C22_ExitStopsGenerator ==
    [][(Tick /\ device_handler'.fsm_state # device_handler.fsm_state)
          => /\ device_handler.fsm_state = "DISCOVERING"
                    => ~device_searcher'.started
             /\ device_handler.fsm_state = "CONNECTING"
                    => ~session_initializer'.started
             /\ device_handler.fsm_state = "POLLING_INFO"
                    => PollerStopped(info_poller')]_vars

\* the FSM went from CONNECTING to DISCONNECTING and on to INIT with the
\* session initializer still armed: its connect request has been sent
C22_ConnectWhileDisconnecting ==
    /\ last.op = "process" /\ last.exc = "none"
    /\ device_handler.last_fsm_state = "DISCONNECTING"
    /\ device_handler.fsm_state = "INIT"
    /\ session_initializer.started
    /\ device_handler.active_request_record
           = Some([completed |-> FALSE, kind |-> "connect"])

\* C23: with a disconnection requested and comm_broken not set, a tick that
\* starts in CONNECTING, POLLING_INFO or READY ends in DISCONNECTING.
C23_DisconnectRequestWins ==
    [][(/\ Tick
        /\ last'.ev.comm = "none"
        /\ ~device_handler.comm_broken
        /\ device_handler.disconnection_requested
        /\ device_handler.fsm_state \in {"CONNECTING", "POLLING_INFO", "READY"})
          => device_handler'.fsm_state = "DISCONNECTING"]_vars

\* the poller's error took the FSM from POLLING_INFO to INIT although a
\* disconnection was requested; reset_comm() then dropped the request and its
\* callback, which was never called
C23_RequestLost ==
    /\ last.op = "process" /\ last.exc = "none"
    /\ device_handler.last_fsm_state = "INIT"
    /\ ~device_handler.disconnection_requested
    /\ device_handler.disconnect_callback = None
    /\ info_poller.fsm_state = "Error"
    /\ info_poller.stop_requested
    /\ cb_calls = <<>>
    /\ last.ev.comm = "none"

\* C24: what handle_comm does in a tick is seen by do_state_machine in the same
\* tick, and what the generators register is sent by handle_comm in the same
\* tick: the tick that gets the valid answer to the connect request ends
\* connected and in POLLING_INFO; a tick that meets a transport error and runs
\* to its end ends in INIT or DISCOVERING, not connected; a tick in which the
\* poller enters a single-request state over an idle link ends with a request
\* sent.
C24_SameTick ==
    [][Tick
          => /\ (/\ device_handler.fsm_state = "CONNECTING"
                 /\ ~device_handler.comm_broken
                 /\ last'.ev.comm = "none"
                 /\ ~session_initializer.success
                 /\ session_initializer'.success)
                    => /\ device_handler'.connected
                       /\ device_handler'.fsm_state = "POLLING_INFO"
                       /\ device_handler'.session_id
                              = session_initializer'.session_id
             /\ last'.ev.comm \in {"timeout", "parse_error", "idle"}
                    => /\ device_handler'.fsm_state \in {"INIT", "DISCOVERING"}
                       /\ ~device_handler'.connected
             /\ (/\ comm_handler.open /\ comm_handler.state = "idle"
                 /\ device_handler.active_request_record = None
                 /\ dispatcher = <<>>
                 /\ info_poller.started /\ ~info_poller.stop_requested
                 /\ info_poller.fsm_state \in SingleRequestStates
                 /\ info_poller.fsm_state # info_poller.last_fsm_state)
                    => comm_handler'.state = "waiting"]_vars

\* the tick that got the answer to the connect request ended in POLLING_INFO
C24_HandshakeSeenAtOnce ==
    /\ last.op = "process" /\ last.exc = "none"
    /\ last.ev.completed = "other" /\ last.ev.success
    /\ device_handler.last_fsm_state = "CONNECTING"
    /\ device_handler.fsm_state = "POLLING_INFO"
    /\ device_handler.connected
    /\ session_initializer.success

\* C25: once the poller is stopped, no tick in which the DeviceHandler cannot
\* call start() (it is not in POLLING_INFO) leaves the poller started with no
\* stop requested, where its process() registers requests.
C25_StoppedStaysStopped ==
    [][(/\ last'.op = "process"
        /\ info_poller.stop_requested
        /\ device_handler.fsm_state # "POLLING_INFO")
          => ~(info_poller'.started /\ ~info_poller'.stop_requested)]_vars

\* no start() since the reset of the communication, and the poller has its
\* first request pending while the DeviceHandler searches for a device
C25_PollWhileDiscovering ==
    /\ last.op = "process" /\ last.exc = "none"
    /\ device_handler.fsm_state = "DISCOVERING"
    /\ device_handler.last_fsm_state = "DISCOVERING"
    /\ info_poller.started /\ ~info_poller.stop_requested
    /\ info_poller.fsm_state = "GetProtocolVersion"
    /\ info_poller.last_fsm_state = "GetProtocolVersion"
    /\ info_poller.request_pending

\* a fresh ActiveSFDHandler with autoload, looking at this DeviceHandler
SfdFresh ==
    [sfd_handler |-> ActiveSFDHandler_init, datastore |-> Datastore_clear,
     exc |-> "none", log |-> NoSfdLog]

C29_StateAgreesWithConnected ==
    /\ device_handler.fsm_state \in {"POLLING_INFO", "READY"}
           => device_handler.connected
    /\ device_handler.fsm_state \in {"INIT", "DISCOVERING", "CONNECTING"}
           => ~device_handler.connected

\* C29: POLLING_INFO and READY imply connected; DISCOVERING and CONNECTING
\* imply not connected; in INIT connected is set only when INIT has just been
\* chosen by the state machine and reset_comm() has not yet run.
C29_ConnectedByState ==
    /\ device_handler.fsm_state \in {"POLLING_INFO", "READY"}
           => device_handler.connected
    /\ device_handler.fsm_state \in {"DISCOVERING", "CONNECTING"}
           => ~device_handler.connected
    /\ (device_handler.fsm_state = "INIT" /\ device_handler.connected)
           => device_handler.last_fsm_state = "POLLING_INFO"

\* the poller failed: the tick chose INIT and the handler is still connected
C29_InitStillConnected ==
    /\ last.op = "process" /\ last.exc = "none"
    /\ device_handler.fsm_state = "INIT"
    /\ device_handler.last_fsm_state = "POLLING_INFO"
    /\ device_handler.connected
    /\ info_poller.fsm_state = "Error"
    /\ get_connection_status(device_handler) = "CONNECTED_NOT_READY"

TickAfterTick ==
    /\ SfdTick
    /\ sfd_last.op = "process"
    /\ sfd_handler.sfd # None
    /\ sfd_handler.requested_firmware_id = None

\* C26 (as claimed): an SFD that is loaded after a tick is still loaded, with
\* the same datastore content, after the next tick when neither the status
\* changed nor a request was made, whatever the autoload choice
C26_LoadedSfdStays ==
    [][TickAfterTick
          => /\ sfd_handler'.sfd = sfd_handler.sfd
             /\ datastore' = datastore]_vars

\* C26 (amended): the SFD stays loaded over the next tick, and no callback is
\* called, when autoload is off or the status is CONNECTED_READY; with autoload
\* on and another status the next tick unloads it, although a request loaded it
C26_StaysUnlessAutoloadUnloads ==
    [][TickAfterTick
          => IF ~sfd_handler.autoload
                \/ get_connection_status(device_handler) = "CONNECTED_READY"
             THEN /\ sfd_handler'.sfd = sfd_handler.sfd
                  /\ datastore' = datastore
                  /\ sfd_last'.log.loaded_calls = <<>>
                  /\ sfd_last'.log.unloaded_calls = <<>>
             ELSE /\ sfd_handler'.sfd = None
                  /\ datastore' = {}
                  /\ sfd_last'.log.unloaded_calls = sfd_handler.unloaded_callbacks]_vars

\* autoload is off, no device is connected: a tick that loaded nothing ended
\* with the SFD of an earlier request still loaded
C26_KeptWithoutAutoload ==
    /\ sfd_last.op = "process"
    /\ ~sfd_handler.autoload
    /\ get_connection_status(device_handler) = "DISCONNECTED"
    /\ sfd_handler.previous_device_status = "DISCONNECTED"
    /\ sfd_handler.sfd = Some("BBBB0002")
    /\ datastore = {"/a", "/c"}
    /\ sfd_last.log.offered = <<>>
    /\ sfd_last.log.unloaded_calls = <<>>

\* the last notification before the step, then the notifications of the step
NotificationsOfStep == << sfd_notified >> \o sfd_last'.log.notifications

\* C27 (as claimed): the notifications alternate: no "loaded" directly after
\* a "loaded", and every "unloaded" directly after a "loaded"
C27_NotificationsAlternate ==
    [][\A i \in 2..Len(NotificationsOfStep) :
           /\ NotificationsOfStep[i] = "loaded"
                  => NotificationsOfStep[i - 1] # "loaded"
           /\ NotificationsOfStep[i] = "unloaded"
                  => NotificationsOfStep[i - 1] = "loaded"]_vars

\* C27 (amended): every "unloaded" comes directly after a "loaded", at most
\* once in an operation, as its first notification and with an SFD loaded
\* before the operation; while an SFD is loaded the last notification is
\* "loaded".  A "loaded" may follow a "loaded": load_sfd() replaces or drops
\* the loaded SFD without notifying the unloaded-callbacks.
C27_UnloadedFollowsLoaded ==
    [][/\ \A i \in 2..Len(NotificationsOfStep) :
              NotificationsOfStep[i] = "unloaded"
                  => /\ NotificationsOfStep[i - 1] = "loaded"
                     /\ i = 2
                     /\ sfd_handler.sfd # None
       /\ sfd_handler'.sfd # None => sfd_notified' = "loaded"
       /\ sfd_last'.log.unloaded_calls # <<>>
              => "unloaded" \in {sfd_last'.log.notifications[i] :
                                    i \in DOMAIN sfd_last'.log.notifications}]_vars

\* a tick unloaded the SFD of the device that went away and loaded the
\* requested one: both callback lists were called, in this order
C27_UnloadedThenLoaded ==
    /\ sfd_last.op = "process"
    /\ sfd_last.log.notifications = << "unloaded", "loaded" >>
    /\ sfd_last.log.unloaded_calls # <<>>
    /\ sfd_last.log.loaded_calls # <<>>
    /\ sfd_handler.sfd = Some("BBBB0002")

====
